---- MODULE Spec2Model ----
(***************************************************************************)
(* Model of lib/dot-compat.js: the translator translateESLintRC and the    *)
(* DotCompat facade.                                                       *)
(*                                                                         *)
(* Representation of JavaScript values:                                    *)
(*  - a plain object is a record whose DOMAIN is the set of its keys       *)
(*    (an absent key is absent from the DOMAIN);                           *)
(*  - an object whose key order is read by Object.keys (node.plugins,      *)
(*    node.env, plugin.processors, plugin.environments) is a sequence of   *)
(*    [name, value] pairs in insertion order;                              *)
(*  - an object reference that the translator can follow AND mutate       *)
(*    (a node, a builtin environment fragment, a plugin definition) is a   *)
(*    location in the heap record; a plugin definition is referred to by   *)
(*    the plugin's name;                                                   *)
(*  - a sentinel string in the output is [sentinel |-> s], a glob string   *)
(*    inside `files` is [glob |-> s] and an array nested inside `files`    *)
(*    is [list |-> <<...>>], so that values of different JavaScript types  *)
(*    can be told apart.                                                   *)
(***************************************************************************)
EXTENDS Integers, Sequences, FiniteSets, TLC

VARIABLES heap, call, result, outcome, before, memo

vars == <<heap, call, result, outcome, before, memo>>

(***************************************************************************)
(* Bounds                                                                  *)
(***************************************************************************)
\* depth of nested translateESLintRC frames the engine's call stack allows
StackLimit == 4

(***************************************************************************)
(* Object helpers                                                          *)
(***************************************************************************)
Has(o, k) == k \in DOMAIN o

Del(o, k) == [j \in DOMAIN o \ {k} |-> o[j]]

Put(o, k, v) == (k :> v) @@ o

Restrict(o, ks) == [j \in DOMAIN o \cap ks |-> o[j]]

EmptyObject == [j \in {} |-> TRUE]

\* Object.keys(o) of an insertion-ordered object
Keys(m) == [i \in 1..Len(m) |-> m[i].name]

\* String.prototype.startsWith
startsWith(s, p) == Len(s) >= Len(p) /\ SubSeq(s, 1, Len(p)) = p

\* `LET x == v IN F(x)` with v evaluated exactly once
Let(v, F(_)) == CHOOSE out \in {F(x) : x \in {v}} : TRUE

RECURSIVE Flatten(_)
Flatten(ss) == IF ss = <<>> THEN <<>> ELSE Head(ss) \o Flatten(Tail(ss))


(***************************************************************************)
(* The builtin Environment Table (conf/environments.js): name -> fragment. *)
(* layered stands for a fragment whose translation has two entries.        *)
(***************************************************************************)
BuiltinEnvironments ==
    [ es6  |-> [ parserOptions |-> [ecmaVersion |-> 6],
                 globals       |-> [Promise |-> FALSE] ],
      node |-> [ parserOptions |-> [ecmaFeatures |-> [globalReturn |-> TRUE]],
                 globals       |-> [process |-> FALSE] ],
      amd  |-> [ globals       |-> [define |-> FALSE] ],
      layered |-> [ ignorePattern |-> [patterns |-> <<"vendor">>],
                    globals       |-> [layer |-> TRUE] ] ]

(***************************************************************************)
(* Plugin definitions as loaded by the resolver: name -> definition.       *)
(* fixture1..fixture3 are the fixtures of the test suite; fixture4 adds a  *)
(* non-dot processor key and environments with parser options and nested   *)
(* env flags; selfref declares an environment that enables itself.         *)
(***************************************************************************)
PluginDefinitions ==
    [ fixture1 |-> [ processors   |-> <<>>,
                     environments |-> <<>> ],
      fixture2 |-> [ processors   |-> << [name |-> ".md", value |-> "fixture2/.md"] >>,
                     environments |-> <<>> ],
      fixture3 |-> [ processors   |-> <<>>,
                     environments |->
                       << [name |-> "a", value |-> [globals |-> [foo |-> TRUE]]],
                          [name |-> "b", value |-> [globals |-> [bar |-> FALSE]]] >> ],
      fixture4 |-> [ processors   |->
                       << [name |-> ".txt",    value |-> "fixture4/.txt"],
                          [name |-> "virtual", value |-> "fixture4/virtual"],
                          [name |-> ".vue",    value |-> "fixture4/.vue"] >>,
                     environments |->
                       << [name |-> "es",
                           value |-> [ parserOptions |-> [ecmaVersion |-> 11,
                                                          sourceType  |-> "module"],
                                       rules |-> [bar |-> "warn"] ]],
                          [name |-> "up",
                           value |-> [ env   |-> << [name |-> "fixture3/a", value |-> TRUE],
                                                    [name |-> "amd",        value |-> TRUE] >>,
                                       rules |-> [baz |-> "off"] ]] >> ],
      selfref  |-> [ environments |->
                       << [name |-> "loop",
                           value |-> [ plugins |-> << [name |-> "selfref", value |-> "selfref"] >>,
                                       env     |-> << [name |-> "selfref/loop", value |-> TRUE] >> ]] >> ] ]

(***************************************************************************)
(* Heap access.  A location names a node the translator was handed:        *)
(* an element of the resolver's array, a builtin environment fragment, or  *)
(* an environment fragment of a plugin definition.                         *)
(***************************************************************************)
ElementLoc(i)   == [kind |-> "element", index |-> i]
BuiltinLoc(n)   == [kind |-> "builtin", name |-> n]
PluginLoc(p, i) == [kind |-> "plugin", plugin |-> p, index |-> i]

Deref(h, loc) ==
    CASE loc.kind = "element" -> h.array[loc.index]
      [] loc.kind = "builtin" -> h.environments[loc.name]
      [] loc.kind = "plugin"  -> h.plugins[loc.plugin].environments[loc.index].value

Store(h, loc, node) ==
    CASE loc.kind = "element" -> [h EXCEPT !.array[loc.index] = node]
      [] loc.kind = "builtin" -> [h EXCEPT !.environments[loc.name] = node]
      [] loc.kind = "plugin"  ->
            [h EXCEPT !.plugins[loc.plugin].environments[loc.index].value = node]

(***************************************************************************)
(* translateESLintRC, lines 35-214.  The local variables of one call are   *)
(* the record                                                              *)
(*   [dotConfig, languageOptions, linterOptions, aliased, configs,         *)
(*    pluginEnvironments, heap, error]                                     *)
(* `aliased` is the set of keys k for which languageOptions[k] is the very *)
(* object node[k] (assigned by reference), so that a delete on it is a     *)
(* delete on the node.  dotConfig.languageOptions and                      *)
(* dotConfig.linterOptions are references to the two local objects and are *)
(* kept equal to them.                                                     *)
(***************************************************************************)
keysToCopy == <<"settings", "rules", "processor">>

languageOptionsKeysToCopy == <<"globals", "parser", "parserOptions">>

linterOptionsKeysToCopy == <<"noInlineConfig", "reportUnusedDisableDirectives">>

Range(seq) == {seq[i] : i \in 1..Len(seq)}

Sentinel(s) == [sentinel |-> s]

\* Locals with a lookup table that holds the environments of every plugin
\* instead of starting empty
Locals_SharedTable(h) ==
    LET declared == UNION { { <<pl, j>> : j \in 1..Len(h.plugins[pl].environments) } :
                            pl \in DOMAIN h.plugins }
        KeyOf(d) == d[1] \o "/" \o h.plugins[d[1]].environments[d[2]].name
    IN  [ dotConfig          |-> EmptyObject,
          languageOptions    |-> EmptyObject,
          linterOptions      |-> EmptyObject,
          aliased            |-> {},
          configs            |-> <<>>,
          pluginEnvironments |-> [k \in {KeyOf(d) : d \in declared} |->
                                    LET d == CHOOSE x \in declared : KeyOf(x) = k
                                    IN  PluginLoc(d[1], d[2])],
          heap               |-> h,
          error              |-> "none" ]

\* lines 37-44: the locals of a fresh call
Locals(h) ==
    [ dotConfig          |-> EmptyObject,
      languageOptions    |-> EmptyObject,
      linterOptions      |-> EmptyObject,
      aliased            |-> {},
      configs            |-> <<>>,
      pluginEnvironments |-> EmptyObject,
      heap               |-> h,
      error              |-> "none" ]

\* assignment to the languageOptions object, seen through dotConfig too
SetLanguageOptions(s, lo) ==
    [s EXCEPT !.languageOptions = lo,
              !.dotConfig = IF Has(@, "languageOptions")
                            THEN Put(@, "languageOptions", lo) ELSE @]

\* SentinelOf with the two checks in the other order
SentinelOf_RecommendedFirst(node) ==
    IF Has(node, "settings")
    THEN IF Has(node.settings, "eslint:recommended")
            /\ node.settings["eslint:recommended"] = TRUE
         THEN "eslint:recommended"
         ELSE IF Has(node.settings, "eslint:all") /\ node.settings["eslint:all"] = TRUE
              THEN "eslint:all"
              ELSE "none"
    ELSE "none"

\* lines 46-55: the sentinel the node stands for, or "none"
SentinelOf(node) ==
    IF Has(node, "settings")
    THEN IF Has(node.settings, "eslint:all") /\ node.settings["eslint:all"] = TRUE
         THEN "eslint:all"
         ELSE IF Has(node.settings, "eslint:recommended")
                 /\ node.settings["eslint:recommended"] = TRUE
              THEN "eslint:recommended"
              ELSE "none"
    ELSE "none"

\* lines 57-62
CopySimple(s, node) ==
    [s EXCEPT !.dotConfig = Restrict(node, Range(keysToCopy))]

\* lines 66-81: one iteration of the languageOptions loop
CopyLanguageOption(s, node, key) ==
    IF ~Has(node, key) THEN s
    ELSE LET s1 == [s EXCEPT !.dotConfig = Put(@, "languageOptions", s.languageOptions)]
         IN  IF Has(s1.languageOptions, key)
             THEN \* line 70: a new object with the same key/value pairs
                  [SetLanguageOptions(s1, Put(s1.languageOptions, key, node[key]))
                     EXCEPT !.aliased = @ \ {key}]
             ELSE IF key = "parser"
                  THEN \* lines 74-78
                       [SetLanguageOptions(s1, Put(s1.languageOptions, key, node[key].definition))
                          EXCEPT !.aliased = @ \ {key}]
                  ELSE \* line 74: the node's own object
                       [SetLanguageOptions(s1, Put(s1.languageOptions, key, node[key]))
                          EXCEPT !.aliased = @ \cup {key}]

RECURSIVE CopyLanguageOptions(_, _, _)
CopyLanguageOptions(s, node, i) ==
    IF i > Len(languageOptionsKeysToCopy) THEN s
    ELSE CopyLanguageOptions(CopyLanguageOption(s, node, languageOptionsKeysToCopy[i]),
                             node, i + 1)

\* CopyLinterOptions copying only the keys whose value is truthy
CopyLinterOptions_Truthy(s, node) ==
    LET present == {k \in Range(linterOptionsKeysToCopy) : Has(node, k) /\ node[k] = TRUE}
    IN  IF present = {} THEN s
        ELSE [s EXCEPT !.linterOptions = Restrict(node, present),
                       !.dotConfig = Put(@, "linterOptions", Restrict(node, present))]

\* lines 85-90
CopyLinterOptions(s, node) ==
    LET present == {k \in Range(linterOptionsKeysToCopy) : Has(node, k)}
    IN  IF present = {} THEN s
        ELSE [s EXCEPT !.linterOptions = Restrict(node, present),
                       !.dotConfig = Put(@, "linterOptions", Restrict(node, present))]

\* MoveUp without the delete
MoveUp_NoDelete(s, loc, k) ==
    LET po == s.languageOptions.parserOptions
    IN  IF ~Has(po, k) THEN s
        ELSE SetLanguageOptions(s, Put(s.languageOptions, k, po[k]))

\* lines 95-98 and 100-103: move one parser option a level up and delete it
\* from languageOptions.parserOptions, which may be the node's object
MoveUp(s, loc, k) ==
    LET po == s.languageOptions.parserOptions
    IN  IF ~Has(po, k) THEN s
        ELSE LET lo   == Put(Put(s.languageOptions, k, po[k]), "parserOptions", Del(po, k))
                 s1   == SetLanguageOptions(s, lo)
                 node == Deref(s.heap, loc)
             IN  IF "parserOptions" \in s.aliased
                 THEN [s1 EXCEPT !.heap =
                          Store(@, loc, Put(node, "parserOptions", Del(po, k)))]
                 ELSE s1

\* lines 93-109
HoistParserOptions(s, loc) ==
    IF ~Has(s.languageOptions, "parserOptions") THEN s
    ELSE LET s2 == MoveUp(MoveUp(s, loc, "ecmaVersion"), loc, "sourceType")
         IN  IF DOMAIN s2.languageOptions.parserOptions = {}
             THEN SetLanguageOptions(s2, Del(s2.languageOptions, "parserOptions"))
             ELSE s2

\* lines 111-115
IgnorePatternEntry(s, node) ==
    IF Has(node, "ignorePattern")
    THEN [s EXCEPT !.configs = << [ignores |-> node.ignorePattern.patterns] >> \o @]
    ELSE s

\* lines 121-131: one criteria pair
CriteriaPair(dotConfig, pair) ==
    LET d1 == IF Has(pair, "includes")
              THEN Put(dotConfig, "files",
                       [i \in 1..Len(pair.includes) |-> [glob |-> pair.includes[i].pattern]])
              ELSE dotConfig
    IN  IF Has(pair, "excludes")
        THEN IF ~Has(pair, "includes")
             THEN Put(d1, "files",
                      << [list |-> [i \in 1..Len(pair.excludes) |->
                                        [glob |-> "!" \o pair.excludes[i].pattern]]] >>)
             ELSE Put(d1, "ignores",
                      [i \in 1..Len(pair.excludes) |-> pair.excludes[i].pattern])
        ELSE d1

\* CriteriaLoop visiting the pairs from the last one to the first
RECURSIVE CriteriaLoop_FirstWins(_, _, _)
CriteriaLoop_FirstWins(dotConfig, patterns, i) ==
    IF i > Len(patterns) THEN dotConfig
    ELSE CriteriaLoop_FirstWins(CriteriaPair(dotConfig, patterns[Len(patterns) + 1 - i]),
                                patterns, i + 1)

RECURSIVE CriteriaLoop(_, _, _)
CriteriaLoop(dotConfig, patterns, i) ==
    IF i > Len(patterns) THEN dotConfig
    ELSE CriteriaLoop(CriteriaPair(dotConfig, patterns[i]), patterns, i + 1)

\* lines 118-135
TranslateCriteria(s, node) ==
    IF Has(node, "criteria")
    THEN [s EXCEPT !.dotConfig = CriteriaLoop(@, node.criteria.patterns, 1)]
    ELSE s

\* ProcessorLoop without the startsWith(".") test
RECURSIVE ProcessorLoop_NoDotCheck(_, _, _)
ProcessorLoop_NoDotCheck(configs, processors, i) ==
    IF i > Len(processors) THEN configs
    ELSE ProcessorLoop_NoDotCheck(
             << [ files     |-> << [glob |-> "**/*" \o processors[i].name] >>,
                  processor |-> processors[i].value ] >> \o configs,
             processors, i + 1)

\* ProcessorLoop appending each entry instead of putting it at the front
RECURSIVE ProcessorLoop_Push(_, _, _)
ProcessorLoop_Push(configs, processors, i) ==
    IF i > Len(processors) THEN configs
    ELSE ProcessorLoop_Push(
             IF startsWith(processors[i].name, ".")
             THEN configs \o << [ files     |-> << [glob |-> "**/*" \o processors[i].name] >>,
                                  processor |-> processors[i].value ] >>
             ELSE configs,
             processors, i + 1)

\* lines 154-164: the processors of one plugin, each dot-keyed one unshifted
RECURSIVE ProcessorLoop(_, _, _)
ProcessorLoop(configs, processors, i) ==
    IF i > Len(processors) THEN configs
    ELSE LET processorName == processors[i].name
         IN  ProcessorLoop(
                 IF startsWith(processorName, ".")
                 THEN << [ files     |-> << [glob |-> "**/*" \o processorName] >>,
                           processor |-> processors[i].value ] >> \o configs
                 ELSE configs,
                 processors, i + 1)

\* lines 168-177: pluginEnvironments.set("plugin/env", fragment) for each one
RECURSIVE StoreEnvironments(_, _, _, _, _)
StoreEnvironments(pluginEnvironments, pluginName, ref, environmentNames, i) ==
    IF i > Len(environmentNames) THEN pluginEnvironments
    ELSE StoreEnvironments(
             Put(pluginEnvironments, pluginName \o "/" \o environmentNames[i],
                 PluginLoc(ref, i)),
             pluginName, ref, environmentNames, i + 1)

\* lines 143-178: one iteration of the plugins loop
TranslatePlugin(s, entry) ==
    LET pluginName == entry.name
        plugin     == s.heap.plugins[entry.value]
    IN  [s EXCEPT
           !.dotConfig = Put(@, "plugins",
                             Append(@.plugins, [name |-> pluginName, value |-> entry.value])),
           !.configs = IF Has(plugin, "processors")
                       THEN ProcessorLoop(@, plugin.processors, 1)
                       ELSE @,
           !.pluginEnvironments =
                       IF Has(plugin, "environments")
                       THEN StoreEnvironments(@, pluginName, entry.value,
                                              Keys(plugin.environments), 1)
                       ELSE @]

\* PluginLoop visiting the plugins from the last one to the first
RECURSIVE PluginLoop_Reversed(_, _, _)
PluginLoop_Reversed(s, plugins, i) ==
    IF i > Len(plugins) THEN s
    ELSE PluginLoop_Reversed(TranslatePlugin(s, plugins[Len(plugins) + 1 - i]),
                             plugins, i + 1)

RECURSIVE PluginLoop(_, _, _)
PluginLoop(s, plugins, i) ==
    IF i > Len(plugins) THEN s
    ELSE PluginLoop(TranslatePlugin(s, plugins[i]), plugins, i + 1)

\* lines 138-179
TranslatePlugins(s, node) ==
    IF Has(node, "plugins")
    THEN PluginLoop([s EXCEPT !.dotConfig = Put(@, "plugins", <<>>)], node.plugins, 1)
    ELSE s

\* finalPushOf putting the own entry at the front
finalPushOf_Front(s) ==
    IF DOMAIN s.dotConfig # {} THEN <<s.dotConfig>> \o s.configs ELSE s.configs

\* finalPushOf without the check for keys
finalPushOf_Always(s) == s.configs \o <<s.dotConfig>>

finalPushOf(s) ==
    IF DOMAIN s.dotConfig # {} THEN s.configs \o <<s.dotConfig>> ELSE s.configs

\* unshiftBuiltin with the items in reverse order
unshiftBuiltin_Reversed(configs, items) ==
    [i \in 1..Len(items) |-> items[Len(items) + 1 - i]] \o configs

\* unshiftBuiltin appending the items
unshiftBuiltin_Push(configs, items) == configs \o items

\* line 192: configs.unshift(...items)
unshiftBuiltin(configs, items) == items \o configs

\* pushPlugin appending the items twice
pushPlugin_Twice(configs, items) == configs \o items \o items

\* line 199: configs.push(...items)
pushPlugin(configs, items) == configs \o items

\* envIsEnabled taking every listed name as enabled
envIsEnabled_Always(env, i) == TRUE

\* line 188: if (eslintrcConfig.env[envName])
envIsEnabled(env, i) == env[i].value

RECURSIVE translateESLintRC(_, _, _)
RECURSIVE EnvLoop(_, _, _, _)

\* lines 183-205: the env loop from index i on; an error thrown by a
\* recursive call leaves the loop
EnvLoop(s, env, i, depth) ==
    IF i > Len(env) \/ s.error # "none" THEN s
    ELSE LET envName == env[i].name
         IN  IF ~envIsEnabled(env, i) THEN EnvLoop(s, env, i + 1, depth)
             ELSE IF envName \in DOMAIN s.heap.environments
             THEN \* lines 192-195: unshift the translation of the builtin fragment
                  Let(translateESLintRC(BuiltinLoc(envName), s.heap, depth + 1),
                      LAMBDA r : EnvLoop([s EXCEPT !.configs = unshiftBuiltin(@, r.configs),
                                                   !.heap = r.heap,
                                                   !.error = r.error],
                                         env, i + 1, depth))
             ELSE IF Has(s.pluginEnvironments, envName)
             THEN \* lines 199-202: push the translation of the plugin's fragment
                  Let(translateESLintRC(s.pluginEnvironments[envName], s.heap, depth + 1),
                      LAMBDA r : EnvLoop([s EXCEPT !.configs = pushPlugin(@, r.configs),
                                                   !.heap = r.heap,
                                                   !.error = r.error],
                                         env, i + 1, depth))
             ELSE EnvLoop(s, env, i + 1, depth)

\* lines 181-213: the env loop, then the final push and the return
TranslateEnv(s, eslintrcConfig, depth) ==
    Let(IF Has(eslintrcConfig, "env")
        THEN EnvLoop(s, eslintrcConfig.env, 1, depth)
        ELSE s,
        LAMBDA s8 : IF s8.error # "none"
                    THEN [configs |-> <<>>, heap |-> s8.heap, error |-> s8.error]
                    ELSE [configs |-> finalPushOf(s8), heap |-> s8.heap,
                          error |-> "none"])

\* lines 35-214.  depth counts the frames of translateESLintRC on the call
\* stack; a call that would exceed the stack throws RangeError.
translateESLintRC(loc, h, depth) ==
    LET eslintrcConfig == Deref(h, loc)
    IN  IF depth > StackLimit
        THEN [configs |-> <<>>, heap |-> h, error |-> "RangeError"]
        ELSE IF SentinelOf(eslintrcConfig) # "none"
        THEN [configs |-> <<Sentinel(SentinelOf(eslintrcConfig))>>,
              heap |-> h, error |-> "none"]
        ELSE LET s1 == CopySimple(Locals(h), eslintrcConfig)
                 s2 == CopyLanguageOptions(s1, eslintrcConfig, 1)
                 s3 == CopyLinterOptions(s2, eslintrcConfig)
                 s4 == HoistParserOptions(s3, loc)
                 s5 == IgnorePatternEntry(s4, eslintrcConfig)
                 s6 == TranslateCriteria(s5, eslintrcConfig)
                 s7 == TranslatePlugins(s6, eslintrcConfig)
             IN  Let(s7, LAMBDA s : TranslateEnv(s, eslintrcConfig, depth))

(***************************************************************************)
(* Inputs.  A node handed to the translator is the union of one choice of  *)
(* own settings and one choice of structure: the plain settings with every *)
(* structure, the parser and sentinel settings with the core structures.   *)
(***************************************************************************)
SentinelSettings ==
    { [settings |-> ("eslint:all" :> TRUE), rules |-> [foo |-> "warn"]],
      [settings |-> ("eslint:recommended" :> TRUE)],
      [settings |-> ("eslint:all" :> TRUE) @@ ("eslint:recommended" :> TRUE)],
      [settings |-> ("eslint:all" :> FALSE) @@ ("eslint:recommended" :> TRUE),
       rules |-> [foo |-> "warn"]] }

ParserSettings ==
    { [parserOptions |-> EmptyObject],
      [parserOptions |-> [ecmaVersion |-> 6]],
      [parserOptions |-> [sourceType |-> "module"], globals |-> [foo |-> TRUE]],
      [parserOptions |-> [ecmaVersion |-> 6, sourceType |-> "module",
                          ecmaFeatures |-> [jsx |-> TRUE]],
       parser |-> [definition |-> "my-parser"]],
      [parserOptions |-> [ecmaFeatures |-> [jsx |-> TRUE]]] }

PlainSettings ==
    { EmptyObject,
      [rules |-> [foo |-> "error"]],
      [settings |-> [foo |-> TRUE], processor |-> "markdown/md"],
      [noInlineConfig |-> FALSE],
      [noInlineConfig |-> TRUE, reportUnusedDisableDirectives |-> FALSE,
       rules |-> [foo |-> "error"]] }

Structures ==
    { EmptyObject,
      [ignorePattern |-> [patterns |-> <<"**/*.jsx">>]],
      [criteria |-> [patterns |-> << [excludes |-> << [pattern |-> "**/*.jsx"],
                                                      [pattern |-> "**/*.tsx"] >>] >>]],
      [criteria |-> [patterns |-> << [includes |-> << [pattern |-> "**/*.js"],
                                                      [pattern |-> "**/*.jsx"] >>,
                                      excludes |-> << [pattern |-> "**/*.test.js"] >>] >>]],
      [criteria |-> [patterns |-> << [includes |-> << [pattern |-> "**/*.js"] >>,
                                      excludes |-> << [pattern |-> "**/*.test.js"] >>],
                                     [includes |-> << [pattern |-> "**/*.md"] >>] >>]],
      [criteria |-> [patterns |-> << [includes |-> << [pattern |-> "**/*.js"] >>,
                                      excludes |-> << [pattern |-> "**/*.test.js"] >>],
                                     [excludes |-> << [pattern |-> "**/*.md"] >>] >>]],
      [plugins |-> << [name |-> "fixture1", value |-> "fixture1"],
                      [name |-> "fixture2", value |-> "fixture2"] >>],
      [plugins |-> << [name |-> "fixture2", value |-> "fixture2"],
                      [name |-> "fixture4", value |-> "fixture4"] >>,
       ignorePattern |-> [patterns |-> <<"dist">>]],
      [plugins |-> << [name |-> "fixture3", value |-> "fixture3"] >>,
       env     |-> << [name |-> "fixture3/a", value |-> TRUE],
                      [name |-> "fixture3/b", value |-> TRUE] >>],
      [env |-> << [name |-> "es6", value |-> TRUE] >>],
      [env |-> << [name |-> "amd", value |-> TRUE], [name |-> "node", value |-> FALSE] >>],
      [env |-> << [name |-> "es6", value |-> TRUE], [name |-> "node", value |-> TRUE],
                  [name |-> "unknown", value |-> TRUE] >>],
      [plugins |-> << [name |-> "fixture4", value |-> "fixture4"],
                      [name |-> "fixture3", value |-> "fixture3"] >>,
       env     |-> << [name |-> "fixture4/es", value |-> TRUE],
                      [name |-> "node",        value |-> TRUE],
                      [name |-> "fixture4/up", value |-> TRUE],
                      [name |-> "fixture3/b",  value |-> FALSE] >>,
       ignorePattern |-> [patterns |-> <<"dist">>]],
      [env |-> << [name |-> "fixture3/a", value |-> TRUE] >>],
      [env |-> << [name |-> "node",    value |-> FALSE],
                  [name |-> "unknown", value |-> TRUE],
                  [name |-> "amd",     value |-> TRUE] >>],
      [plugins |-> << [name |-> "fixture2", value |-> "fixture2"] >>,
       env     |-> << [name |-> "layered", value |-> TRUE],
                      [name |-> "amd",     value |-> TRUE] >>,
       ignorePattern |-> [patterns |-> <<"build">>]],
      [plugins |-> << [name |-> "selfref", value |-> "selfref"] >>,
       env     |-> << [name |-> "selfref/loop", value |-> TRUE] >>] }

\* structures that take part in every combination
CoreStructures ==
    { str \in Structures :
        \/ str = EmptyObject
        \/ DOMAIN str = {"env"} /\ Len(str.env) = 1 /\ str.env[1].name = "es6"
        \/ DOMAIN str = {"plugins", "env", "ignorePattern"} }

Nodes ==
    { own @@ str : own \in PlainSettings, str \in Structures }
    \cup { own @@ str : own \in ParserSettings \cup SentinelSettings,
                        str \in CoreStructures }

(***************************************************************************)
(* The external Resolver (ConfigArrayFactory.create): a user config to the *)
(* array of resolved elements: the elements of each extended config in     *)
(* order, then the config's own element, then one element per override.    *)
(***************************************************************************)
ShareableConfigs ==
    [ fixture1 |-> << [type |-> "config", globals |-> [foobar |-> TRUE]] >>,
      fixture2 |-> << [type |-> "config", globals |-> [foobar |-> FALSE],
                       rules |-> [foobar |-> "error"]] >>,
      es6env   |-> << [type |-> "config",
                       env |-> << [name |-> "es6", value |-> TRUE] >>] >>,
      ignored  |-> << [type |-> "ignore",
                       ignorePattern |-> [patterns |-> <<"node_modules">>],
                       rules |-> [never |-> "error"]] >> ]
      @@ ("eslint:all" :> << [type |-> "config",
                              settings |-> ("eslint:all" :> TRUE)] >>)
      @@ ("eslint:recommended" :> << [type |-> "config",
                                      settings |-> ("eslint:recommended" :> TRUE)] >>)

PassThroughKeys ==
    {"settings", "rules", "processor", "globals", "parserOptions",
     "noInlineConfig", "reportUnusedDisableDirectives", "env"}

\* the resolved form of the keys a config or an override carries itself
NormalizeBody(c) ==
    [type |-> "config"]
    @@ Restrict(c, PassThroughKeys)
    @@ (IF Has(c, "plugins")
        THEN [plugins |-> [i \in 1..Len(c.plugins) |->
                              [name |-> c.plugins[i], value |-> c.plugins[i]]]]
        ELSE EmptyObject)
    @@ (IF Has(c, "parser") THEN [parser |-> [definition |-> c.parser]] ELSE EmptyObject)
    @@ (IF Has(c, "ignorePatterns")
        THEN [ignorePattern |-> [patterns |-> c.ignorePatterns]]
        ELSE EmptyObject)

AsPatterns(globs) == [i \in 1..Len(globs) |-> [pattern |-> globs[i]]]

NormalizeOverride(o) ==
    NormalizeBody(o)
    @@ [criteria |-> [patterns |-> <<
           (IF Has(o, "files") THEN [includes |-> AsPatterns(o.files)] ELSE EmptyObject)
           @@ (IF Has(o, "excludedFiles")
               THEN [excludes |-> AsPatterns(o.excludedFiles)] ELSE EmptyObject) >>]]

create(c) ==
    (IF Has(c, "extends")
     THEN Flatten([i \in 1..Len(c.extends) |-> ShareableConfigs[c.extends[i]]])
     ELSE <<>>)
    \o << NormalizeBody(c) >>
    \o (IF Has(c, "overrides")
        THEN [i \in 1..Len(c.overrides) |-> NormalizeOverride(c.overrides[i])]
        ELSE <<>>)

(***************************************************************************)
(* DotCompat, lines 224-296.                                               *)
(***************************************************************************)
\* forEachElement without the test of configData.type
RECURSIVE forEachElement_NoTypeCheck(_, _)
forEachElement_NoTypeCheck(acc, i) ==
    IF i > Len(acc.heap.array) \/ acc.error # "none" THEN acc
    ELSE Let(translateESLintRC(ElementLoc(i), acc.heap, 1),
             LAMBDA r : forEachElement_NoTypeCheck(
                            [configs |-> acc.configs \o r.configs,
                             heap    |-> r.heap,
                             error   |-> r.error], i + 1))

\* lines 252-259: the forEach callback from element i on; an error thrown by
\* the translator leaves the loop
RECURSIVE forEachElement(_, _)
forEachElement(acc, i) ==
    IF i > Len(acc.heap.array) \/ acc.error # "none" THEN acc
    ELSE IF acc.heap.array[i].type = "config"
         THEN Let(translateESLintRC(ElementLoc(i), acc.heap, 1),
                  LAMBDA r : forEachElement([configs |-> acc.configs \o r.configs,
                                             heap    |-> r.heap,
                                             error   |-> r.error], i + 1))
         ELSE forEachElement(acc, i + 1)

\* lines 245-262
config(eslintrcConfig, h) ==
    forEachElement([configs |-> <<>>,
                    heap    |-> [h EXCEPT !.array = create(eslintrcConfig)],
                    error   |-> "none"], 1)

\* lines 269-273
env(envConfig, h) == config([env |-> envConfig], h)

\* lines 280-284
extends(configsToExtend, h) == config([extends |-> configsToExtend], h)

\* lines 291-295
plugins(pluginNames, h) == config([plugins |-> pluginNames], h)

(***************************************************************************)
(* Inputs of the facade.                                                   *)
(***************************************************************************)
UserConfigs ==
    { EmptyObject,
      [rules |-> [foo |-> "error"], ignorePatterns |-> <<"**/*.jsx">>],
      [extends |-> <<"fixture1", "eslint:all", "fixture2">>, rules |-> [foo |-> "warn"]],
      [extends |-> <<"ignored", "fixture1">>, rules |-> [foo |-> "warn"]],
      [extends |-> <<"es6env">>, env |-> << [name |-> "es6", value |-> TRUE] >>],
      [rules |-> [foo |-> "error"],
       overrides |-> << [files |-> <<"**/*.js", "**/*.jsx">>,
                         excludedFiles |-> <<"**/*.test.js">>,
                         rules |-> [foo |-> "warn"]],
                        [files |-> <<"**/*.md">>,
                         settings |-> ("eslint:recommended" :> TRUE)] >>],
      [plugins |-> <<"fixture3">>,
       env |-> << [name |-> "fixture3/a", value |-> TRUE] >>],
      [parser |-> "my-parser", parserOptions |-> [sourceType |-> "module"]],
      [plugins |-> <<"selfref">>,
       env |-> << [name |-> "selfref/loop", value |-> TRUE] >>] }

EnvConfigs ==
    { <<>>,
      << [name |-> "es6", value |-> TRUE] >>,
      << [name |-> "amd", value |-> TRUE], [name |-> "node", value |-> FALSE] >>,
      << [name |-> "node", value |-> TRUE] >>,
      << [name |-> "es6", value |-> TRUE], [name |-> "amd", value |-> TRUE] >>,
      << [name |-> "unknown", value |-> TRUE] >> }

ExtendsLists ==
    { <<"fixture1">>, <<"eslint:all">>, <<"eslint:recommended">>,
      <<"fixture1", "eslint:all", "fixture2">>, <<"ignored">>, <<"es6env", "es6env">> }

PluginLists ==
    { <<"fixture1">>, <<"fixture2">>, <<"fixture1", "fixture2">>,
      <<"fixture4", "fixture2">>, <<"fixture3">> }

\* the calls whose first result is remembered, to compare later calls with
Watched ==
    { [op |-> "env",       cfg |-> [env |-> << [name |-> "es6", value |-> TRUE] >>]],
      [op |-> "env",       cfg |-> [env |-> << [name |-> "node", value |-> TRUE] >>]],
      [op |-> "extends",   cfg |-> [extends |-> <<"fixture1", "eslint:all", "fixture2">>]],
      [op |-> "plugins",   cfg |-> [plugins |-> <<"fixture4", "fixture2">>]] }

IsWatched(c) == \E w \in Watched : w.op = c.op /\ w.cfg = c.cfg

(***************************************************************************)
(* State machine.  heap holds the objects that outlive a call; before is   *)
(* the heap as it was when the last call started (with the array that call *)
(* was given); result and outcome are what the last call returned or threw.*)
(***************************************************************************)
Init ==
    /\ heap = [ array        |-> <<>>,
                environments |-> BuiltinEnvironments,
                plugins      |-> PluginDefinitions ]
    /\ call = [op |-> "none", cfg |-> EmptyObject]
    /\ result = <<>>
    /\ outcome = "none"
    /\ before = [ array        |-> <<>>,
                  environments |-> BuiltinEnvironments,
                  plugins      |-> PluginDefinitions ]
    /\ memo = <<>>

OutcomeOf(r) == IF r.error = "none" THEN "ok" ELSE r.error

\* the bookkeeping of every call: c the call, h0 the heap it started from,
\* r what it produced (nothing is returned when it threw)
Return(c, h0, r) ==
    /\ call' = c
    /\ before' = h0
    /\ heap' = r.heap
    /\ result' = IF r.error = "none" THEN r.configs ELSE <<>>
    /\ outcome' = OutcomeOf(r)
    /\ \/ memo' = memo
       \/ /\ memo = <<>>
          /\ IsWatched(c)
          /\ memo' = << [call |-> c, result |-> result', outcome |-> outcome'] >>

\* one call of translateESLintRC on a node
Translate(node) ==
    \E h0 \in {[heap EXCEPT !.array = <<node>>]} :
    \E r \in {translateESLintRC(ElementLoc(1), h0, 1)} :
        Return([op |-> "translate", cfg |-> node], h0, r)

Config(c) ==
    \E r \in {config(c, heap)} :
        Return([op |-> "config", cfg |-> c], [heap EXCEPT !.array = create(c)], r)

Env(m) ==
    \E r \in {env(m, heap)} :
        Return([op |-> "env", cfg |-> [env |-> m]],
               [heap EXCEPT !.array = create([env |-> m])], r)

Extends(names) ==
    \E r \in {extends(names, heap)} :
        Return([op |-> "extends", cfg |-> [extends |-> names]],
               [heap EXCEPT !.array = create([extends |-> names])], r)

Plugins(names) ==
    \E r \in {plugins(names, heap)} :
        Return([op |-> "plugins", cfg |-> [plugins |-> names]],
               [heap EXCEPT !.array = create([plugins |-> names])], r)

Next ==
    \/ \E node \in Nodes : Translate(node)
    \/ \E c \in UserConfigs : Config(c)
    \/ \E m \in EnvConfigs : Env(m)
    \/ \E names \in ExtendsLists : Extends(names)
    \/ \E names \in PluginLists : Plugins(names)

Spec == Init /\ [][Next]_vars

(***************************************************************************)
(* Properties.  Helpers shared by the formulas below.                      *)
(***************************************************************************)
IsTranslate == call.op = "translate" /\ outcome = "ok"

\* the node of the last translate call, as it was handed over
GivenNode == before.array[1]

FlagSet(node, flag) ==
    /\ "settings" \in DOMAIN node
    /\ flag \in DOMAIN node.settings
    /\ node.settings[flag] = TRUE

NoSentinelFlag(node) ==
    ~FlagSet(node, "eslint:all") /\ ~FlagSet(node, "eslint:recommended")

EnvEs6 == << [name |-> "es6", value |-> TRUE] >>

\* C1: translate never mutates its inputs: after any sequence of calls the
\* nodes handed over, every builtin environment fragment and every plugin
\* definition hold exactly the key/value pairs they held before the first call.
Claim_C1_InputsNeverMutated ==
    /\ heap.array = before.array
    /\ heap.environments = BuiltinEnvironments
    /\ heap.plugins = PluginDefinitions

\* C2: translate is repeatable: a call with the same input as a remembered
\* earlier call returns the same output, whatever ran in between; and every
\* call env({es6: true}) returns the one entry
\* {languageOptions: {ecmaVersion: 6, globals: <es6 globals>}}.
Claim_C2_Repeatable ==
    /\ (memo # <<>> /\ call.op = memo[1].call.op /\ call.cfg = memo[1].call.cfg)
          => (outcome = memo[1].outcome /\ result = memo[1].result)
    /\ (call.op = "env" /\ call.cfg = [env |-> EnvEs6])
          => result = << [languageOptions |->
                            [ecmaVersion |-> 6,
                             globals |-> BuiltinEnvironments.es6.globals]] >>

\* C3: sentinel short-circuit: a node with settings["eslint:all"] === true
\* translates to exactly ["eslint:all"] whatever else it carries; otherwise
\* one with settings["eslint:recommended"] === true translates to exactly
\* ["eslint:recommended"]; with both flags the result is ["eslint:all"].
Thm_C3_SentinelShortCircuit ==
    call.op = "translate" =>
        /\ FlagSet(GivenNode, "eslint:all")
              => (outcome = "ok" /\ result = << [sentinel |-> "eslint:all"] >>)
        /\ (~FlagSet(GivenNode, "eslint:all") /\ FlagSet(GivenNode, "eslint:recommended"))
              => (outcome = "ok" /\ result = << [sentinel |-> "eslint:recommended"] >>)

Witness_C3 ==
    /\ call.op = "translate"
    /\ FlagSet(GivenNode, "eslint:all")
    /\ FlagSet(GivenNode, "eslint:recommended")
    /\ {"plugins", "env", "ignorePattern"} \subseteq DOMAIN GivenNode
    /\ result = << [sentinel |-> "eslint:all"] >>

\* the environments plugin p declares, in order
DeclaredEnvironments(h, p) ==
    IF "environments" \in DOMAIN h.plugins[p] THEN h.plugins[p].environments ELSE <<>>

\* the entries the translation of plugin p's j-th environment produces
\* from heap h
PluginEnvEntries(h, p, j) == translateESLintRC(PluginLoc(p, j), h, 2).configs

\* C4: for a node that registers plugin P and enables a plugin-declared
\* environment "P/a", every entry produced by translating that environment
\* is placed after the entry carrying plugins: {P: ...}, never before it.
Claim_C4_PluginEnvAfterPlugins ==
    (IsTranslate /\ NoSentinelFlag(GivenNode)
        /\ {"plugins", "env"} \subseteq DOMAIN GivenNode) =>
    \A i \in 1..Len(GivenNode.env), q \in 1..Len(GivenNode.plugins) :
        LET p == GivenNode.plugins[q].name
        IN  \A j \in 1..Len(DeclaredEnvironments(before, p)) :
            ( /\ GivenNode.env[i].value
              /\ GivenNode.env[i].name = p \o "/" \o DeclaredEnvironments(before, p)[j].name
              /\ GivenNode.env[i].name \notin DOMAIN before.environments ) =>
            \A k \in 1..Len(result), m \in 1..Len(result) :
                ( /\ result[k] \in Range(PluginEnvEntries(before, p, j))
                  /\ "plugins" \in DOMAIN result[m]
                  /\ \E x \in 1..Len(result[m].plugins) : result[m].plugins[x].name = p )
                => k > m

\* the nodes the enabled environment `name` of a node sends the translator to
EnvTargets(h, node, name) ==
    IF name \in DOMAIN h.environments THEN {BuiltinLoc(name)}
    ELSE IF "plugins" \in DOMAIN node
    THEN UNION { { PluginLoc(e.value, j) :
                     j \in { x \in 1..Len(DeclaredEnvironments(h, e.value)) :
                               name = e.name \o "/" \o DeclaredEnvironments(h, e.value)[x].name } } :
                 e \in Range(node.plugins) }
    ELSE {}

\* the environment references of the node at loc lead back to a node that
\* is already being translated (path: the nodes on the way down)
RECURSIVE HasCycle(_, _, _)
HasCycle(loc, h, path) ==
    LET node == Deref(h, loc)
    IN  /\ NoSentinelFlag(node)
        /\ "env" \in DOMAIN node
        /\ \E i \in 1..Len(node.env) :
              /\ node.env[i].value
              /\ \E t \in EnvTargets(h, node, node.env[i].name) :
                    t \in path \cup {loc} \/ HasCycle(t, h, path \cup {loc})

\* C5: translate always ends with a defined outcome: the output sequence
\* when the node's environment references are acyclic, the explicit error
\* "environment cycle detected" when they form a cycle.
Claim_C5_DefinedOutcome ==
    call.op = "translate" =>
        IF HasCycle(ElementLoc(1), before, {})
        THEN outcome = "environment cycle detected"
        ELSE outcome = "ok"

\* the entries the translation of the builtin environment `name` produces
\* from heap h
BuiltinEnvEntries(h, name) == translateESLintRC(BuiltinLoc(name), h, 2).configs

Reverse(seq) == [i \in 1..Len(seq) |-> seq[Len(seq) + 1 - i]]

IsEnabledBuiltin(e) == e.value /\ e.name \in DOMAIN before.environments

\* the processor entries the plugins of a node can give rise to
ProcessorEntriesOf(node) ==
    UNION { { [files |-> << [glob |-> "**/*" \o pr.name] >>, processor |-> pr.value] :
                pr \in IF "processors" \in DOMAIN before.plugins[e.value]
                       THEN Range(before.plugins[e.value].processors) ELSE {} } :
            e \in Range(node.plugins) }

\* the entries the enabled environments of a node can give rise to
EnvEntriesOf(node) ==
    UNION { UNION { Range(translateESLintRC(t, before, 2).configs) :
                      t \in EnvTargets(before, node, e.name) } :
            e \in {x \in Range(node.env) : x.value} }

\* C6: translate({}) returns the empty sequence; a node whose only keys are
\* plugins and/or env yields only entries of its plugin/env expansion
\* (processor entries, the entry that registers the plugins, environment
\* translations); a node with only env yields exactly the translations of
\* its enabled environments and no own entry.
Thm_C6_ExpansionOnly ==
    IsTranslate =>
        /\ GivenNode = EmptyObject => result = <<>>
        /\ DOMAIN GivenNode \subseteq {"plugins", "env"} =>
              \A k \in 1..Len(result) :
                  \/ /\ "plugins" \in DOMAIN GivenNode
                     /\ result[k] \in ProcessorEntriesOf(GivenNode)
                  \/ /\ "plugins" \in DOMAIN GivenNode
                     /\ k = Len(result)
                     /\ result[k] = [plugins |-> GivenNode.plugins]
                  \/ /\ "env" \in DOMAIN GivenNode
                     /\ result[k] \in EnvEntriesOf(GivenNode)
        /\ DOMAIN GivenNode = {"env"} =>
              result = Flatten([i \in 1..Len(SelectSeq(GivenNode.env, IsEnabledBuiltin)) |->
                                  BuiltinEnvEntries(before,
                                      Reverse(SelectSeq(GivenNode.env, IsEnabledBuiltin))[i].name)])

Witness_C6 ==
    /\ IsTranslate
    /\ DOMAIN GivenNode = {"env"}
    /\ \E i \in 1..Len(GivenNode.env) : ~IsEnabledBuiltin(GivenNode.env[i])
    /\ Len(result) >= 2

\* C7: for a translated node, every plugin and every key k of its processors:
\* the output holds the entry {files: ["**/*" + k], processor: processors[k]}
\* exactly when k begins with "."; that entry sits before the own entry that
\* carries plugins; a key that does not begin with "." produces no entry.
Thm_C7_ProcessorInsertion ==
    (IsTranslate /\ NoSentinelFlag(GivenNode) /\ "plugins" \in DOMAIN GivenNode) =>
    \A q \in 1..Len(GivenNode.plugins) :
        LET plugin == before.plugins[GivenNode.plugins[q].value]
        IN  "processors" \in DOMAIN plugin =>
            \A x \in 1..Len(plugin.processors) :
                LET k     == plugin.processors[x].name
                    entry == [ files     |-> << [glob |-> "**/*" \o k] >>,
                               processor |-> plugin.processors[x].value ]
                IN  IF Len(k) > 0 /\ SubSeq(k, 1, 1) = "."
                    THEN /\ \E j \in 1..Len(result) : result[j] = entry
                         /\ \A j \in 1..Len(result), m \in 1..Len(result) :
                               (result[j] = entry /\ "plugins" \in DOMAIN result[m])
                                  => j < m
                         /\ \E m \in 1..Len(result) : "plugins" \in DOMAIN result[m]
                    ELSE \A j \in 1..Len(result) :
                            /\ result[j] # entry
                            /\ "processor" \in DOMAIN result[j]
                                  => result[j].processor # plugin.processors[x].value

Witness_C7 ==
    /\ IsTranslate
    /\ "plugins" \in DOMAIN GivenNode
    /\ \E q \in 1..Len(GivenNode.plugins) : GivenNode.plugins[q].name = "fixture4"
    /\ \E j \in 1..Len(result) :
          result[j] = [files |-> << [glob |-> "**/*.vue"] >>, processor |-> "fixture4/.vue"]
    /\ "plugins" \in DOMAIN result[Len(result)]

HoistedKeys == {"ecmaVersion", "sourceType"}

\* C8: in every entry, ecmaVersion and sourceType of the node's parserOptions
\* appear as languageOptions.ecmaVersion / languageOptions.sourceType with the
\* same values and never inside languageOptions.parserOptions; every other
\* key stays in languageOptions.parserOptions; languageOptions.parserOptions
\* is absent when no other key remains.
Thm_C8_OptionHoisting ==
    /\ \A k \in 1..Len(result) :
          ( /\ "languageOptions" \in DOMAIN result[k]
            /\ "parserOptions" \in DOMAIN result[k].languageOptions )
          => /\ DOMAIN result[k].languageOptions.parserOptions \cap HoistedKeys = {}
             /\ DOMAIN result[k].languageOptions.parserOptions # {}
    /\ (IsTranslate /\ NoSentinelFlag(GivenNode) /\ "parserOptions" \in DOMAIN GivenNode) =>
          LET po   == GivenNode.parserOptions
              own  == result[Len(result)]
              rest == DOMAIN po \ HoistedKeys
          IN  /\ Len(result) > 0
              /\ "languageOptions" \in DOMAIN own
              /\ \A k \in HoistedKeys \cap DOMAIN po :
                    /\ k \in DOMAIN own.languageOptions
                    /\ own.languageOptions[k] = po[k]
              /\ IF rest = {}
                 THEN "parserOptions" \notin DOMAIN own.languageOptions
                 ELSE /\ "parserOptions" \in DOMAIN own.languageOptions
                      /\ own.languageOptions.parserOptions = [k \in rest |-> po[k]]

Witness_C8 ==
    /\ IsTranslate
    /\ "parserOptions" \in DOMAIN GivenNode
    /\ DOMAIN GivenNode.parserOptions = {"ecmaVersion", "sourceType", "ecmaFeatures"}
    /\ result[Len(result)].languageOptions.ecmaVersion = 6
    /\ result[Len(result)].languageOptions.sourceType = "module"
    /\ DOMAIN result[Len(result)].languageOptions.parserOptions = {"ecmaFeatures"}

HasBoth(pair) == {"includes", "excludes"} \subseteq DOMAIN pair

ExcludesOnly(pair) == "excludes" \in DOMAIN pair /\ "includes" \notin DOMAIN pair

\* C9: for a node whose criteria holds a pair with excludes and no includes,
\* the own entry's files is a one-element sequence whose single element is
\* the ordered list of that pair's exclude patterns each prefixed with "!"
\* (nested, not flattened), and the own entry has no ignores key.
Claim_C9_ExcludesWithoutIncludes ==
    ( /\ IsTranslate
      /\ NoSentinelFlag(GivenNode)
      /\ "criteria" \in DOMAIN GivenNode
      /\ \E i \in 1..Len(GivenNode.criteria.patterns) :
            ExcludesOnly(GivenNode.criteria.patterns[i]) ) =>
    LET patterns == GivenNode.criteria.patterns
        own      == result[Len(result)]
    IN  /\ Len(result) > 0
        /\ "files" \in DOMAIN own
        /\ \E i \in 1..Len(patterns) :
              /\ ExcludesOnly(patterns[i])
              /\ own.files = << [list |-> [x \in 1..Len(patterns[i].excludes) |->
                                              [glob |-> "!" \o patterns[i].excludes[x].pattern]]] >>
        /\ "ignores" \notin DOMAIN own

IsFacadeCall == call.op \in {"config", "env", "extends", "plugins"} /\ outcome = "ok"

\* what each element of the resolver's array contributes, in resolver order:
\* its translation if its type is "config" (from the heap the translations
\* before it left), nothing otherwise
RECURSIVE Contributions(_, _)
Contributions(h, i) ==
    IF i > Len(h.array) THEN <<>>
    ELSE IF h.array[i].type # "config" THEN << <<>> >> \o Contributions(h, i + 1)
    ELSE Let(translateESLintRC(ElementLoc(i), h, 1),
             LAMBDA r : << r.configs >> \o Contributions(r.heap, i + 1))

\* C10: config(node) returns the concatenation, in resolver order, of
\* translate(e) for each resolver-produced element e whose type is "config";
\* elements of any other type contribute nothing, so sentinels appear at the
\* positions of the elements they come from; env(m), extends(...n) and
\* plugins(...n) return the same sequence as config({env: m}),
\* config({extends: n}) and config({plugins: n}).
Thm_C10_FacadeComposition ==
    IsFacadeCall =>
        /\ before.array = create(call.cfg)
        /\ result = Flatten(Contributions(before, 1))
        /\ \A i \in 1..Len(before.array) :
              /\ before.array[i].type # "config" =>
                    \A k \in 1..Len(result) :
                        result[k] \notin
                            Range(translateESLintRC(ElementLoc(i), before, 1).configs)
              /\ (before.array[i].type = "config" /\ ~NoSentinelFlag(before.array[i])) =>
                    /\ Len(Contributions(before, 1)[i]) = 1
                    /\ "sentinel" \in DOMAIN
                          result[Len(Flatten(SubSeq(Contributions(before, 1), 1, i)))]
        /\ call.op # "config" =>
              /\ DOMAIN call.cfg = {call.op}
              /\ result = config(call.cfg, before).configs

Witness_C10 ==
    /\ IsFacadeCall
    /\ Len(before.array) >= 3
    /\ \E i \in 1..Len(before.array) : before.array[i].type # "config"
    /\ Len(result) = 2

\* the env flags of a node that select an environment: value true and a name
\* found in the builtin table or among the node's plugins' environments
SelectingEnv(h, node) ==
    LET selects(e) == e.value /\ EnvTargets(h, node, e.name) # {}
    IN  SelectSeq(node.env, selects)

\* the translation, from the heap the last call started with, of the given
\* node with its env reduced to the flags that select an environment
TranslationOfSelected ==
    translateESLintRC(ElementLoc(1),
                      [before EXCEPT !.array =
                          << [GivenNode EXCEPT !.env = SelectingEnv(before, GivenNode)] >>],
                      1)

\* C11: environment selection: an env name contributes entries only if its
\* value is true; a name whose value is false and a true name found neither
\* in the builtin table nor among the environments of the node's plugins
\* raise no error and leave the rest of the output as it is: the call ends
\* as the call on the node without those names does.
Thm_C11_EnvironmentSelection ==
    (call.op = "translate" /\ "env" \in DOMAIN GivenNode) =>
        /\ outcome = OutcomeOf(TranslationOfSelected)
        /\ outcome = "ok" => result = TranslationOfSelected.configs
        /\ SelectingEnv(before, GivenNode) = <<>> => outcome = "ok"

Witness_C11 ==
    /\ IsTranslate
    /\ "env" \in DOMAIN GivenNode
    /\ \E i \in 1..Len(GivenNode.env) :
          ~GivenNode.env[i].value /\ GivenNode.env[i].name \in DOMAIN before.environments
    /\ \E i \in 1..Len(GivenNode.env) :
          GivenNode.env[i].value /\ EnvTargets(before, GivenNode, GivenNode.env[i].name) = {}
    /\ Len(SelectingEnv(before, GivenNode)) = 1
    /\ "rules" \in DOMAIN GivenNode
    /\ Len(result) = 2

LinterKeys == {"noInlineConfig", "reportUnusedDisableDirectives"}

\* C12: linter options are copied by presence, not by truthiness: for each
\* of noInlineConfig and reportUnusedDisableDirectives present on the node
\* (also with value false) the own entry's linterOptions holds that key with
\* the node's value and no other key; the own entry has no linterOptions
\* when neither key is present.
Thm_C12_LinterOptionsByPresence ==
    (IsTranslate /\ NoSentinelFlag(GivenNode)) =>
        IF DOMAIN GivenNode \cap LinterKeys # {}
        THEN /\ Len(result) > 0
             /\ "linterOptions" \in DOMAIN result[Len(result)]
             /\ result[Len(result)].linterOptions
                   = [k \in DOMAIN GivenNode \cap LinterKeys |-> GivenNode[k]]
        ELSE \A k \in 1..Len(result) : "linterOptions" \notin DOMAIN result[k]

Witness_C12 ==
    /\ IsTranslate
    /\ DOMAIN GivenNode \cap LinterKeys = LinterKeys
    /\ GivenNode.reportUnusedDisableDirectives = FALSE
    /\ "env" \in DOMAIN GivenNode
    /\ result[Len(result)].linterOptions
          = [noInlineConfig |-> TRUE, reportUnusedDisableDirectives |-> FALSE]

IsDotKey(pr) == Len(pr.name) > 0 /\ SubSeq(pr.name, 1, 1) = "."

\* the processors of plugin reference ref, in order
DeclaredProcessors(h, ref) ==
    IF "processors" \in DOMAIN h.plugins[ref] THEN h.plugins[ref].processors ELSE <<>>

\* the processor entries of one plugin in the order of its processor keys
ProcessorEntriesInKeyOrder(h, ref) ==
    LET dotted == SelectSeq(DeclaredProcessors(h, ref), IsDotKey)
    IN  [x \in 1..Len(dotted) |->
            [files |-> << [glob |-> "**/*" \o dotted[x].name] >>,
             processor |-> dotted[x].value]]

\* all processor entries of a node: plugin by plugin in insertion order
AllProcessorEntries(h, node) ==
    IF "plugins" \in DOMAIN node
    THEN Flatten([q \in 1..Len(node.plugins) |->
                     ProcessorEntriesInKeyOrder(h, node.plugins[q].value)])
    ELSE <<>>

\* the enabled builtin environments of a node, in insertion order
EnabledBuiltins(node) ==
    IF "env" \in DOMAIN node THEN SelectSeq(node.env, IsEnabledBuiltin) ELSE <<>>

\* the translations of the environments the flags of a node select, one
\* record per selecting flag from index i on, in insertion order, each from
\* the heap the translations before it left
RECURSIVE SelectedTranslations(_, _, _, _)
SelectedTranslations(h, node, flags, i) ==
    IF i > Len(flags) THEN <<>>
    ELSE Let(translateESLintRC(CHOOSE t \in EnvTargets(h, node, flags[i].name) : TRUE, h, 2),
             LAMBDA r : << [builtin |-> flags[i].name \in DOMAIN h.environments,
                            name    |-> flags[i].name,
                            heap    |-> h,
                            configs |-> r.configs] >>
                        \o SelectedTranslations(r.heap, node, flags, i + 1))

\* the environment translations of the given node of the last call
GivenTranslations ==
    IF "env" \in DOMAIN GivenNode
    THEN SelectedTranslations(before, GivenNode, SelectingEnv(before, GivenNode), 1)
    ELSE <<>>

IsBuiltinTranslation(t) == t.builtin

IsPluginTranslation(t) == ~t.builtin

ConfigsOf(ts) == [i \in 1..Len(ts) |-> ts[i].configs]

\* per enabled builtin environment, in insertion order, its translation
BuiltinTranslations == ConfigsOf(SelectSeq(GivenTranslations, IsBuiltinTranslation))

\* per enabled plugin environment, in insertion order, its translation
PluginTranslations == ConfigsOf(SelectSeq(GivenTranslations, IsPluginTranslation))

IgnoresEntry(node) == [ignores |-> node.ignorePattern.patterns]

\* C13 as stated: whenever node.ignorePattern is present and no sentinel flag
\* is set, the entry {ignores: node.ignorePattern.patterns} is the first
\* entry of the output, ahead of every processor entry of the node's plugins.
Claim_C13_IgnoreEntryAtFront ==
    (IsTranslate /\ NoSentinelFlag(GivenNode) /\ "ignorePattern" \in DOMAIN GivenNode) =>
        /\ Len(result) > 0
        /\ result[1] = IgnoresEntry(GivenNode)
        /\ \A k \in 1..Len(result) :
              result[k] \in Range(AllProcessorEntries(before, GivenNode)) => k > 1

\* C13 amended: whenever node.ignorePattern is present and no sentinel flag
\* is set, the output holds the entry {ignores: node.ignorePattern.patterns}
\* right after the entries of the enabled builtin environments and the
\* processor entries of the node's plugins, which all precede it, and before
\* every other entry; it is the first entry when the node has no dot-keyed
\* processor and no enabled builtin environment.
Thm_C13_IgnoreEntryAfterFrontInsertions ==
    (IsTranslate /\ NoSentinelFlag(GivenNode) /\ "ignorePattern" \in DOMAIN GivenNode) =>
        LET ahead == Len(Flatten(BuiltinTranslations))
                     + Len(AllProcessorEntries(before, GivenNode))
        IN  /\ Len(result) > ahead
            /\ result[ahead + 1] = IgnoresEntry(GivenNode)
            /\ \A k \in 1..Len(result) :
                  result[k] \in Range(AllProcessorEntries(before, GivenNode)) => k <= ahead
            /\ \A k \in 1..Len(result) :
                  (k # ahead + 1 /\ DOMAIN result[k] = {"ignores"}) =>
                      result[k] # IgnoresEntry(GivenNode)

Witness_C13 ==
    /\ IsTranslate
    /\ "ignorePattern" \in DOMAIN GivenNode
    /\ Len(AllProcessorEntries(before, GivenNode)) = 2
    /\ Len(EnabledBuiltins(GivenNode)) = 1
    /\ result[1] = [languageOptions |->
                       [parserOptions |-> [ecmaFeatures |-> [globalReturn |-> TRUE]],
                        globals |-> [process |-> FALSE]]]
    /\ result[4] = [ignores |-> <<"dist">>]

\* the keys, other than ignores, the own entry of a node has
OwnEntryKeys(node) ==
    (DOMAIN node \cap {"settings", "rules", "processor", "plugins"})
    \cup (IF DOMAIN node \cap {"globals", "parser", "parserOptions"} # {}
          THEN {"languageOptions"} ELSE {})
    \cup (IF DOMAIN node \cap LinterKeys # {} THEN {"linterOptions"} ELSE {})
    \cup (IF "criteria" \in DOMAIN node
             /\ \E i \in 1..Len(node.criteria.patterns) :
                   DOMAIN node.criteria.patterns[i] \cap {"includes", "excludes"} # {}
          THEN {"files"} ELSE {})

\* the number of entries front insertion and the ignore pattern give a node
FrontCount ==
    Len(Flatten(BuiltinTranslations)) + Len(AllProcessorEntries(before, GivenNode))
    + (IF "ignorePattern" \in DOMAIN GivenNode THEN 1 ELSE 0)

\* C14: when the node's own entry has at least one key it is the final
\* element of the output, after the ignore-pattern entry, every processor
\* entry and the entries of every builtin and plugin environment; the
\* plugin environment entries come right before it in env insertion order;
\* a node with only ignorePattern and rules yields [{ignores}, {rules}].
Thm_C14_OwnEntryLast ==
    (IsTranslate /\ NoSentinelFlag(GivenNode) /\ OwnEntryKeys(GivenNode) # {}) =>
        LET n   == Len(result)
            own == result[n]
            penv == Flatten(PluginTranslations)
        IN  /\ n = FrontCount + Len(penv) + 1
            /\ DOMAIN own \ {"ignores"} = OwnEntryKeys(GivenNode)
            /\ \A k \in DOMAIN GivenNode \cap {"settings", "rules", "processor", "plugins"} :
                  own[k] = GivenNode[k]
            /\ SubSeq(result, n - Len(penv), n - 1) = penv
            /\ "ignorePattern" \in DOMAIN GivenNode =>
                  \E k \in 1..(n - 1) : result[k] = IgnoresEntry(GivenNode)
            /\ DOMAIN GivenNode = {"ignorePattern", "rules"} =>
                  result = << IgnoresEntry(GivenNode), [rules |-> GivenNode.rules] >>

Witness_C14 ==
    /\ IsTranslate
    /\ {"ignorePattern", "rules", "plugins", "env"} \subseteq DOMAIN GivenNode
    /\ Len(PluginTranslations) = 2
    /\ Len(Flatten(PluginTranslations)) = 3
    /\ Len(result) = 8
    /\ result[8].rules = GivenNode.rules

\* C15: every entry produced by translating an enabled builtin environment
\* of the node sits before the node's ignore-pattern entry, before every
\* processor entry, before every plugin-environment entry and before the own
\* entry: the builtin translations fill the first positions of the output,
\* and the entries of one builtin environment are contiguous there in their
\* own translated order.
Thm_C15_BuiltinEnvironmentsLowest ==
    (IsTranslate /\ NoSentinelFlag(GivenNode)) =>
        LET m == Len(Flatten(BuiltinTranslations))
            n == Len(result)
        IN  /\ m <= n
            /\ \A b \in 1..Len(BuiltinTranslations) :
                  \E off \in 0..m :
                      /\ off + Len(BuiltinTranslations[b]) <= m
                      /\ SubSeq(result, off + 1, off + Len(BuiltinTranslations[b]))
                            = BuiltinTranslations[b]
            /\ Range(SubSeq(result, 1, m)) = Range(Flatten(BuiltinTranslations))
            /\ "ignorePattern" \in DOMAIN GivenNode =>
                  \E k \in (m + 1)..n : result[k] = IgnoresEntry(GivenNode)
            /\ \A e \in Range(AllProcessorEntries(before, GivenNode)) :
                  \E k \in (m + 1)..n : result[k] = e
            /\ \A e \in Range(Flatten(PluginTranslations)) :
                  \E k \in (m + 1)..n : result[k] = e
            /\ n - m = Len(AllProcessorEntries(before, GivenNode))
                        + (IF "ignorePattern" \in DOMAIN GivenNode THEN 1 ELSE 0)
                        + Len(Flatten(PluginTranslations))
                        + (IF OwnEntryKeys(GivenNode) # {} THEN 1 ELSE 0)

Witness_C15 ==
    /\ IsTranslate
    /\ {"ignorePattern", "plugins", "env", "rules"} \subseteq DOMAIN GivenNode
    /\ \E b \in 1..Len(BuiltinTranslations) : Len(BuiltinTranslations[b]) = 2
    /\ Len(BuiltinTranslations) = 2
    /\ Len(result) = 6
    /\ result[2] = [ignores |-> <<"vendor">>]
    /\ result[3] = [languageOptions |-> [globals |-> [layer |-> TRUE]]]
    /\ result[5] = [ignores |-> <<"build">>]

\* C16: plugins are visited in insertion order and each dot-keyed processor
\* entry is inserted at the front: the processor entries of a later-listed
\* plugin all precede those of an earlier-listed plugin in the output (the
\* processor entries form one block, the reverse of their order of
\* insertion), while the own entry's plugins lists the plugins in insertion
\* order.
Thm_C16_ProcessorEntryOrder ==
    (IsTranslate /\ NoSentinelFlag(GivenNode) /\ "plugins" \in DOMAIN GivenNode) =>
        LET m       == Len(Flatten(BuiltinTranslations))
            entries == AllProcessorEntries(before, GivenNode)
            own     == result[Len(result)]
        IN  /\ SubSeq(result, m + 1, m + Len(entries)) = Reverse(entries)
            /\ \A q1 \in 1..Len(GivenNode.plugins), q2 \in 1..Len(GivenNode.plugins) :
                  q1 < q2 =>
                  \A k1 \in 1..Len(result), k2 \in 1..Len(result) :
                      ( /\ result[k1] \in Range(ProcessorEntriesInKeyOrder(
                                                    before, GivenNode.plugins[q1].value))
                        /\ result[k2] \in Range(ProcessorEntriesInKeyOrder(
                                                    before, GivenNode.plugins[q2].value)) )
                      => k2 < k1
            /\ "plugins" \in DOMAIN own
            /\ Keys(own.plugins) = Keys(GivenNode.plugins)
            /\ own.plugins = GivenNode.plugins

Witness_C16 ==
    /\ IsTranslate
    /\ "plugins" \in DOMAIN GivenNode
    /\ Keys(GivenNode.plugins) = <<"fixture2", "fixture4">>
    /\ result[1].processor = "fixture4/.vue"
    /\ result[2].processor = "fixture4/.txt"
    /\ result[3].processor = "fixture2/.md"
    /\ Keys(result[Len(result)].plugins) = <<"fixture2", "fixture4">>

SetsFiles(pair) == DOMAIN pair \cap {"includes", "excludes"} # {}

GlobsOf(ps) == [i \in 1..Len(ps) |-> [glob |-> ps[i].pattern]]

PatternsOf(ps) == [i \in 1..Len(ps) |-> ps[i].pattern]

\* the index of the last pair for which Test holds (0 when there is none)
LastWhere(patterns, Test(_)) ==
    IF \E i \in 1..Len(patterns) : Test(patterns[i])
    THEN CHOOSE i \in 1..Len(patterns) :
             Test(patterns[i]) /\ \A j \in (i + 1)..Len(patterns) : ~Test(patterns[j])
    ELSE 0

\* C17: for a criteria pair with includes the own entry's files is the flat
\* list of the include patterns in order, and if the pair also has excludes
\* the own entry's ignores is the list of its exclude patterns in order;
\* with several pairs the files value of the last pair that sets files
\* replaces every earlier one, and ignores is that of the last pair with
\* both includes and excludes.
Thm_C17_CriteriaTranslation ==
    ( /\ IsTranslate
      /\ NoSentinelFlag(GivenNode)
      /\ "criteria" \in DOMAIN GivenNode
      /\ LastWhere(GivenNode.criteria.patterns, SetsFiles) > 0 ) =>
    LET patterns == GivenNode.criteria.patterns
        last     == patterns[LastWhere(patterns, SetsFiles)]
        own      == result[Len(result)]
    IN  /\ "files" \in DOMAIN own
        /\ "includes" \in DOMAIN last => own.files = GlobsOf(last.includes)
        /\ HasBoth(last) => own.ignores = PatternsOf(last.excludes)
        /\ LastWhere(patterns, HasBoth) > 0 =>
              own.ignores = PatternsOf(patterns[LastWhere(patterns, HasBoth)].excludes)

Witness_C17 ==
    /\ IsTranslate
    /\ "criteria" \in DOMAIN GivenNode
    /\ Len(GivenNode.criteria.patterns) = 2
    /\ HasBoth(GivenNode.criteria.patterns[1])
    /\ DOMAIN GivenNode.criteria.patterns[2] = {"includes"}
    /\ result[Len(result)].files = << [glob |-> "**/*.md"] >>

\* C18: when a node enables the builtin environments e1, e2 in that insertion
\* order, all of e2's entries come before all of e1's entries: the first
\* positions of the output hold the builtin translations in the reverse of
\* insertion order, so the first-listed environment's entries are the last
\* of them and override the others on a shared key.
Thm_C18_SeveralBuiltinEnvironments ==
    (IsTranslate /\ NoSentinelFlag(GivenNode)) =>
        LET bt == BuiltinTranslations
            m  == Len(Flatten(bt))
        IN  /\ SubSeq(result, 1, m) = Flatten(Reverse(bt))
            /\ \A b1 \in 1..Len(bt), b2 \in 1..Len(bt) :
                  b1 < b2 =>
                  \A k1 \in 1..m, k2 \in 1..m :
                      ( /\ result[k1] \in Range(bt[b1])
                        /\ result[k2] \in Range(bt[b2])
                        /\ Range(bt[b1]) \cap Range(bt[b2]) = {} )
                      => k2 < k1
            /\ Len(bt) > 0 => SubSeq(result, m - Len(bt[1]) + 1, m) = bt[1]

Witness_C18 ==
    /\ IsTranslate
    /\ "env" \in DOMAIN GivenNode
    /\ Keys(EnabledBuiltins(GivenNode)) = <<"es6", "node">>
    /\ result[1] = [languageOptions |->
                       [parserOptions |-> [ecmaFeatures |-> [globalReturn |-> TRUE]],
                        globals |-> [process |-> FALSE]]]
    /\ result[2] = [languageOptions |-> [ecmaVersion |-> 6, globals |-> [Promise |-> FALSE]]]

\* the plugin environment translations of the given node, with the heap
\* each one started from
GivenPluginTranslations == SelectSeq(GivenTranslations, IsPluginTranslation)

\* the fragment the plugin environment translation t started from
FragmentOf(t) ==
    Deref(t.heap, CHOOSE loc \in EnvTargets(t.heap, GivenNode, t.name) : TRUE)

\* the translation of the fragment of t with its env reduced to the names
\* that the builtin table or the fragment's own plugins declare
ScopedTranslation(t) ==
    LET loc == CHOOSE x \in EnvTargets(t.heap, GivenNode, t.name) : TRUE
        f   == Deref(t.heap, loc)
    IN  IF "env" \in DOMAIN f
        THEN translateESLintRC(loc,
                 Store(t.heap, loc, [f EXCEPT !.env = SelectingEnv(t.heap, f)]), 2).configs
        ELSE t.configs

\* the env names a fragment enables that only the plugins of the given node
\* declare
ParentOnlyNames(t) ==
    IF "env" \in DOMAIN FragmentOf(t)
    THEN { e.name : e \in { x \in Range(FragmentOf(t).env) :
                              /\ x.value
                              /\ EnvTargets(t.heap, FragmentOf(t), x.name) = {}
                              /\ EnvTargets(t.heap, GivenNode, x.name) # {} } }
    ELSE {}

\* C19: the "pluginName/envName" table belongs to one call: inside the
\* translation of a plugin environment's fragment an env name resolves only
\* against the builtin table and the fragment's own plugins, so the entries
\* the fragment contributes are those of the fragment without the names only
\* the parent node's plugins declare, and such a name contributes nothing.
Thm_C19_PluginEnvironmentScope ==
    (IsTranslate /\ NoSentinelFlag(GivenNode) /\ "env" \in DOMAIN GivenNode) =>
        LET ts   == GivenPluginTranslations
            penv == Flatten([i \in 1..Len(ts) |-> ScopedTranslation(ts[i])])
        IN  /\ SubSeq(result, FrontCount + 1, FrontCount + Len(penv)) = penv
            /\ Len(result) = FrontCount + Len(penv)
                              + (IF OwnEntryKeys(GivenNode) # {} THEN 1 ELSE 0)
            /\ \A i \in 1..Len(ts) :
                  \A name \in ParentOnlyNames(ts[i]) :
                      \A loc \in EnvTargets(ts[i].heap, GivenNode, name) :
                          Range(translateESLintRC(loc, ts[i].heap, 2).configs)
                              \cap Range(ts[i].configs) = {}

Witness_C19 ==
    /\ IsTranslate
    /\ "env" \in DOMAIN GivenNode
    /\ \E i \in 1..Len(GivenPluginTranslations) :
          /\ ParentOnlyNames(GivenPluginTranslations[i]) = {"fixture3/a"}
          /\ GivenPluginTranslations[i].configs
                = << [languageOptions |-> [globals |-> [define |-> FALSE]]],
                     [rules |-> [baz |-> "off"]] >>
    /\ \A k \in 1..Len(result) :
          result[k] # [languageOptions |-> [globals |-> [foo |-> TRUE]]]

\* C20: files and ignores of the own entry come from the same criteria
\* pair: after iterating any list of pairs the own entry carries an ignores
\* key only if the pair that last set files has both includes and excludes,
\* and then ignores is that pair's exclude list; no ignores value set by an
\* earlier pair survives next to a files value set by a later pair.
Claim_C20_FilesAndIgnoresFromSamePair ==
    ( /\ IsTranslate
      /\ NoSentinelFlag(GivenNode)
      /\ "criteria" \in DOMAIN GivenNode
      /\ LastWhere(GivenNode.criteria.patterns, SetsFiles) > 0 ) =>
    LET patterns == GivenNode.criteria.patterns
        last     == patterns[LastWhere(patterns, SetsFiles)]
        own      == result[Len(result)]
    IN  "ignores" \in DOMAIN own =>
            /\ HasBoth(last)
            /\ own.ignores = PatternsOf(last.excludes)

RECURSIVE SumOf(_)
SumOf(ns) == IF ns = <<>> THEN 0 ELSE Head(ns) + SumOf(Tail(ns))

\* the number of processor keys of the node's plugins that begin with "."
DotKeyCount(h, node) ==
    IF "plugins" \in DOMAIN node
    THEN SumOf([q \in 1..Len(node.plugins) |->
                   Cardinality({x \in 1..Len(DeclaredProcessors(h, node.plugins[q].value)) :
                                  IsDotKey(DeclaredProcessors(h, node.plugins[q].value)[x])})])
    ELSE 0

\* the output lengths of the translations of the enabled env names of the
\* given node that resolve to a builtin or plugin environment, one per name
EnvironmentLengths == [i \in 1..Len(GivenTranslations) |-> Len(GivenTranslations[i].configs)]

\* C21: nothing is dropped or duplicated: for a node without a sentinel
\* flag the length of the output is (1 if ignorePattern is present)
\* + (the number of dot-prefixed processor keys over all plugins)
\* + (the sum of the output lengths of the translations of each enabled env
\* name that resolves to a builtin or plugin environment, each name once)
\* + (1 if the own entry has at least one key).
Thm_C21_NothingDroppedOrDuplicated ==
    (IsTranslate /\ NoSentinelFlag(GivenNode)) =>
        Len(result) = (IF "ignorePattern" \in DOMAIN GivenNode THEN 1 ELSE 0)
                      + DotKeyCount(before, GivenNode)
                      + SumOf(EnvironmentLengths)
                      + (IF OwnEntryKeys(GivenNode) # {} THEN 1 ELSE 0)

Witness_C21 ==
    /\ IsTranslate
    /\ NoSentinelFlag(GivenNode)
    /\ "ignorePattern" \in DOMAIN GivenNode
    /\ DotKeyCount(before, GivenNode) = 2
    /\ EnvironmentLengths = <<1, 1, 2>>
    /\ OwnEntryKeys(GivenNode) = {"plugins"}
    /\ Len(result) = 8

\* C22: no empty containers: every element a call returns is a sentinel
\* string or an entry with at least one key, and an entry's languageOptions
\* or linterOptions, when present, has at least one key (a node whose
\* parserOptions is an empty map or holds only ecmaVersion/sourceType never
\* yields languageOptions: {}).
Claim_C22_NoEmptyContainers ==
    outcome = "ok" =>
        \A k \in 1..Len(result) :
            \/ "sentinel" \in DOMAIN result[k]
            \/ /\ DOMAIN result[k] # {}
               /\ "languageOptions" \in DOMAIN result[k]
                     => DOMAIN result[k].languageOptions # {}
               /\ "linterOptions" \in DOMAIN result[k]
                     => DOMAIN result[k].linterOptions # {}

====
